---------------------------- MODULE Spec2Model ----------------------------
(***************************************************************************)
(* A model of respite's authorization-and-scoping pipeline: the Protected  *)
(* wrapper (api), the request context with its database scopes (common)    *)
(* and the generic CRUD handlers (api/base.go) driving it.                 *)
(*                                                                         *)
(* Strings on which the code computes (the Authorization header, resource  *)
(* names, permission strings) are sequences of one-character strings, so   *)
(* that slicing, lower-casing, Sprintf and EqualFold are computed.         *)
(*                                                                         *)
(* The methods of domain.Base (FindByID, Count, FindAll, Save, Update,     *)
(* Delete) are not part of the sources at hand; they are modelled from the *)
(* persistence contract of the specification (section 6).                  *)
(***************************************************************************)
EXTENDS Integers, Sequences, FiniteSets, TLC

None == "none"

(***************************************************************************)
(* Bounds of the model.                                                    *)
(***************************************************************************)
\* identifiers (uuids) that rows can carry
MaxId == 2
\* length of a permission list handed to the permission evaluator on its own
MaxPerms == 2
\* number of Register calls made on a registry on its own
MaxRegs == 3
\* width in bits of the integers of the pagination arithmetic: the numbers drawn at
\* the end of this range overflow it as numbers at the end of the 64-bit range
\* overflow int, and a page size within the limits times a page of four digits
\* does not
IntBits == 24

Ids == 1..MaxId
\* subject ids of the identity provider
Users == {"u1", "u2"}
\* payload values of a domain object
Vals == {1, 2}
\* profile attributes of an identity
Profiles == {"p1", "p2"}

(***************************************************************************)
(* Program constants.                                                      *)
(***************************************************************************)
MaxPageSize == 500
MinPageSize == 10
StatusOK == 200
StatusCreated == 201
StatusNoContent == 204
StatusBadRequest == 400
StatusUnauthorized == 401
StatusNotFound == 404
StatusInternalServerError == 500

GLOBAL == <<"g", "l", "o", "b", "a", "l">>
READ == <<"r", "e", "a", "d">>
WRITE == <<"w", "r", "i", "t", "e">>
Bearer == <<"b", "e", "a", "r", "e", "r">>

(***************************************************************************)
(* Strings.                                                                *)
(***************************************************************************)
\* the lower-case letter of each upper-case letter
LowerOf ==
    [A |-> "a", B |-> "b", C |-> "c", D |-> "d", E |-> "e", F |-> "f", G |-> "g",
     H |-> "h", I |-> "i", J |-> "j", K |-> "k", L |-> "l", M |-> "m", N |-> "n",
     O |-> "o", P |-> "p", Q |-> "q", R |-> "r", S |-> "s", T |-> "t", U |-> "u",
     V |-> "v", W |-> "w", X |-> "x", Y |-> "y", Z |-> "z"]

\* strings.ToLower on one character
LowerChar(c) == IF c \in DOMAIN LowerOf THEN LowerOf[c] ELSE c

\* strings.ToLower
ToLower(s) == [i \in 1..Len(s) |-> LowerChar(s[i])]

\* strings.EqualFold: equal under case folding, character by character
EqualFold(s, t) ==
    /\ Len(s) = Len(t)
    /\ \A i \in 1..Len(s) : LowerChar(s[i]) = LowerChar(t[i])

\* strings.TrimSpace
RECURSIVE TrimLeft(_)
TrimLeft(s) == IF s # <<>> /\ Head(s) = " " THEN TrimLeft(Tail(s)) ELSE s
RECURSIVE TrimRight(_)
TrimRight(s) ==
    IF s # <<>> /\ s[Len(s)] = " " THEN TrimRight(SubSeq(s, 1, Len(s) - 1)) ELSE s
TrimSpace(s) == TrimRight(TrimLeft(s))

\* fmt.Sprintf("%s.%s", resource, permission)
Sprintf(resource, permission) == resource \o <<".">> \o permission

(***************************************************************************)
(* PermissionEvaluator.                                                    *)
(***************************************************************************)
RECURSIVE havePermissionFrom(_, _, _, _)
havePermissionFrom(i, resource, permission, permissions) ==
    IF i > Len(permissions) THEN FALSE
    ELSE IF EqualFold(permissions[i], Sprintf(resource, permission)) THEN TRUE
    ELSE havePermissionFrom(i + 1, resource, permission, permissions)

\* variant: the comparison is case-sensitive
havePermissionCaseSensitive(resource, permission, permissions) ==
    \E i \in 1..Len(permissions) : permissions[i] = Sprintf(resource, permission)

\* havePermission: the loop over the caller's permissions
havePermission(resource, permission, permissions) ==
    havePermissionFrom(1, resource, permission, permissions)

RECURSIVE haveGlobalPermissionFrom(_, _, _)
haveGlobalPermissionFrom(i, resource, permissions) ==
    IF i > Len(permissions) THEN FALSE
    ELSE IF EqualFold(permissions[i], Sprintf(resource, GLOBAL)) THEN TRUE
    ELSE haveGlobalPermissionFrom(i + 1, resource, permissions)

\* haveGlobalPermission
haveGlobalPermission(resource, permissions) ==
    haveGlobalPermissionFrom(1, resource, permissions)

(***************************************************************************)
(* ResourceRegistry and the static role -> permission table.               *)
(***************************************************************************)
ResOrder == <<"o", "r", "d", "e", "r">>
ResCategory == <<"c", "a", "t", "e", "g", "o", "r", "y">>
ResItem == <<"i", "t", "e", "m">>

\* Resources.Resources after initResourceFactory: name -> IsGlobal
\* (an owned "order" and a global "category", as in the README's example)
Registered == {ResOrder, ResCategory}
RegisteredIsGlobal(name) == name = ResCategory

\* Resources.IsGlobal
IsGlobal(name) == IF name \notin Registered THEN FALSE ELSE RegisteredIsGlobal(name)

PermOrderRead == Sprintf(ResOrder, READ)
PermOrderWrite == Sprintf(ResOrder, WRITE)
PermOrderGlobal == Sprintf(ResOrder, GLOBAL)
PermCategoryRead == Sprintf(ResCategory, READ)
PermCategoryWrite == Sprintf(ResCategory, WRITE)
PermOrderGlobalUpper ==
    <<"O", "R", "D", "E", "R", ".", "G", "L", "O", "B", "A", "L">>
PermOrderReadMixed == <<"O", "r", "d", "e", "r", ".", "R", "E", "A", "D">>

\* server.RoleToPermissions: the roles that have an entry
MappedRoles == {"Customer", "Courier", "Owner", "Auditor", "Clerk"}
RoleTable(role) ==
    CASE role = "Customer" -> <<PermOrderRead, PermOrderWrite, PermCategoryRead>>
      [] role = "Courier" -> <<PermOrderGlobal, PermOrderRead, PermOrderWrite>>
      [] role = "Owner" ->
            <<PermCategoryRead, PermCategoryWrite, PermOrderGlobal, PermOrderRead>>
      [] role = "Auditor" -> <<PermOrderGlobalUpper>>
      [] role = "Clerk" -> <<PermOrderReadMixed>>

\* variant: a role without an entry is given the entry of Customer
RoleToPermissionsDefaulting(role) ==
    IF role \in MappedRoles THEN RoleTable(role) ELSE RoleTable("Customer")

\* server.RoleToPermissions[role]: a missing key yields the nil slice
RoleToPermissions(role) == IF role \in MappedRoles THEN RoleTable(role) ELSE <<>>

\* the loop of Protected that appends every role's permissions
RECURSIVE ExpandPermissions(_)
ExpandPermissions(roles) ==
    IF roles = <<>> THEN <<>>
    ELSE RoleToPermissions(Head(roles)) \o ExpandPermissions(Tail(roles))

\* the role lists the identity provider returns in this model
RoleLists ==
    { <<>>, <<"Customer">>, <<"Courier">>, <<"Owner">>, <<"Auditor">>,
      <<"Guest", "Clerk">> }

\* initRouter: the permission each route is wrapped with
Ops == {"create", "list", "get", "update", "delete"}
\* variant: every route asks for the read permission
RoutePermissionAllRead(op) == READ

RoutePermission(op) == IF op \in {"list", "get"} THEN READ ELSE WRITE

(***************************************************************************)
(* Identities, rows and the per-request scope.                             *)
(***************************************************************************)
NoUser == [id |-> None, profile |-> None]

\* a row of a resource table; a global object has no owner column
NoRow == [res |-> <<>>, owner |-> None, val |-> 0]
Owners == Users \cup {None}

\* DBScopes
NewDBScopes(pageSize, pageNumber, offset, user, isGlobal) ==
    [PageSize |-> pageSize, Page |-> pageNumber, Offset |-> offset,
     User |-> user, Global |-> isGlobal]

\* getPageSize, on the integer strconv.Atoi made of the parameter
getPageSize(raw) ==
    IF raw > MaxPageSize THEN MaxPageSize
    ELSE IF raw <= 0 THEN MinPageSize
    ELSE raw

\* variant: the page parameter is taken as it is
getPageAsGiven(raw) == raw

\* getPage
getPage(raw) == IF raw <= 0 THEN 1 ELSE raw

\* the range of int and its arithmetic, which wraps around in two's complement
MaxInt == 2^(IntBits - 1) - 1
MinInt == 0 - MaxInt - 1
WrapInt(n) == ((n - MinInt) % 2^IntBits) + MinInt
\* the product of two numbers of int, a from 0 and b of at most three digits, taken
\* in two halves of a so that no intermediate number is wider than the result
MulInt(a, b) ==
    LET half == 2^(IntBits \div 2)
        low == (a % half) * b
        high == (((a \div half) * b) % (2^IntBits \div half)) * half
    IN  WrapInt(low + high)

\* getOffset
getOffset(rawPage, rawPageSize) == MulInt(getPage(rawPage) - 1, getPageSize(rawPageSize))

\* NewDBScopesFromRequest
NewDBScopesFromRequest(rawPage, rawPageSize, user, isGlobal) ==
    NewDBScopes(getPageSize(rawPageSize), getPage(rawPage),
                getOffset(rawPage, rawPageSize), user, isGlobal)

\* variant: the global modifier does not waive the filter
scopeOwnedIgnoringPermission(resource, permissions) == ~IsGlobal(resource)

\* variant: the owner filter is never added
scopeOwnedNever(resource, permissions) == FALSE

\* the decision of NewRequestContextWithDetails to add the Owned scope
scopeOwned(resource, permissions) ==
    ~IsGlobal(resource) /\ ~haveGlobalPermission(resource, permissions)

\* NewRequestContextWithDetails: the scopes (DBScopes) and the handle (DB)
NoRequestContext ==
    [built |-> FALSE, owned |-> FALSE, Resource |-> <<>>,
     DBScopes |-> NewDBScopes(0, 0, 0, NoUser, FALSE)]
NewRequestContextWithDetails(pageSize, pageNumber, offset, user, resource, permissions) ==
    [built |-> TRUE,
     owned |-> scopeOwned(resource, permissions),
     Resource |-> resource,
     DBScopes |-> NewDBScopes(pageSize, pageNumber, offset, user, IsGlobal(resource))]

\* NewRequestContext
NewRequestContext(rawPage, rawPageSize, user, resource, permissions) ==
    LET dbScopes == NewDBScopesFromRequest(rawPage, rawPageSize, user, IsGlobal(resource))
    IN  NewRequestContextWithDetails(dbScopes.PageSize, dbScopes.Page, dbScopes.Offset,
                                     dbScopes.User, resource, permissions)

\* DBScopes.Owned: dbs.User.ID of a nil user is a nil dereference
OwnedPanics(dbs) == ~dbs.Global /\ dbs.User = NoUser
OwnedMatches(dbs, row) == dbs.Global \/ row.owner = dbs.User.id

\* executing the handle's scopes panics
ScopeFaults(rc) == rc.owned /\ OwnedPanics(rc.DBScopes)

(***************************************************************************)
(* The persistence handle (domain.Base over the scoped handle), modelled   *)
(* from the specification: predicate application, count under predicate,   *)
(* find by id, insert, full-row update, delete.                            *)
(***************************************************************************)
\* the ids of the resource's rows that satisfy the handle's ownership predicate
ScopedIds(rc, table) ==
    {i \in Ids : /\ table[i] # NoRow
                 /\ table[i].res = rc.Resource
                 /\ (rc.owned => OwnedMatches(rc.DBScopes, table[i]))}

\* the ids of a set in ascending order
RECURSIVE SortedIds(_)
SortedIds(S) ==
    IF S = {} THEN <<>>
    ELSE LET m == CHOOSE x \in S : \A y \in S : x <= y
         IN  <<m>> \o SortedIds(S \ {m})

\* the object handed back for a row
ObjectOf(table, i) == [id |-> i, owner |-> table[i].owner, val |-> table[i].val]

\* Count: the number of rows under the predicate
Count(rc, table) == Cardinality(ScopedIds(rc, table))

\* DBScopes.Paginate, the scope every handle carries: Offset(dbs.Offset) and
\* Limit(dbs.PageSize) on the rows a query selects
Paginate(dbs, all) ==
    LET \* an offset that is not positive is left out of the query
        first == IF dbs.Offset > 0 THEN dbs.Offset ELSE 0
        last == IF first + dbs.PageSize < Len(all) THEN first + dbs.PageSize ELSE Len(all)
    IN  [k \in 1..(IF last > first THEN last - first ELSE 0) |-> all[first + k]]

\* FindAll: the page window [Offset, Offset + PageSize) of the rows under the predicate
FindAll(rc, table) ==
    LET page == Paginate(rc.DBScopes, SortedIds(ScopedIds(rc, table)))
    IN  [k \in DOMAIN page |-> ObjectOf(table, page[k])]

\* variant: the lookup by id is not taken through the page window
FindByIDFindsUnpaged(rc, table, uid) == uid \in ScopedIds(rc, table)

\* FindByID: the row with the primary key under the predicate, selected through
\* the scopes of the handle, the page window among them
FindByIDFinds(rc, table, uid) ==
    Paginate(rc.DBScopes, IF uid \in ScopedIds(rc, table) THEN <<uid>> ELSE <<>>) # <<>>

\* Save: insert
Save(table, uid, row) == [table EXCEPT ![uid] = row]

\* Update: the row with the primary key under the predicate is overwritten
Update(rc, table, uid, row) ==
    IF uid \in ScopedIds(rc, table) THEN [table EXCEPT ![uid] = row] ELSE table

\* Delete: the row with the primary key under the predicate is removed
Delete(rc, table, uid) ==
    IF uid \in ScopedIds(rc, table) THEN [table EXCEPT ![uid] = NoRow] ELSE table

\* the number of rows an Update or a Delete of the primary key hits
Affected(rc, table, uid) == IF uid \in ScopedIds(rc, table) THEN 1 ELSE 0

(***************************************************************************)
(* The requests and the answers of the collaborators.                      *)
(***************************************************************************)
HdrMissing == <<>>
HdrBasic == <<"B", "a", "s", "i", "c", " ", "A">>
HdrBearerA == <<"B", "e", "a", "r", "e", "r", " ", "A">>
HdrBearerB == <<"b", "E", "A", "R", "E", "R", " ", "B", " ">>
HdrBearerEmpty == <<"B", "e", "a", "r", "e", "r", " ">>
Headers == {HdrMissing, HdrBasic, HdrBearerA, HdrBearerB, HdrBearerEmpty}

\* further headers: the scheme alone, the scheme run into the credential, a
\* credential the provider does not know, and a text of the scheme's length
HdrBearerOnly == <<"B", "e", "a", "r", "e", "r">>
HdrBearerXA == <<"B", "e", "a", "r", "e", "r", "X", "A">>
HdrBearerC == <<"B", "E", "A", "R", "E", "R", " ", "C">>
HdrDigest == <<"D", "i", "g", "e", "s", "t", " ">>
GateHeaders == Headers \cup {HdrBearerOnly, HdrBearerXA, HdrBearerC, HdrDigest}

\* the credentials the identity provider knows, and their subjects
Tokens == {<<"A">>, <<"B">>}
Subject(token) == IF token = <<"A">> THEN "u1" ELSE "u2"

\* the errors of the collaborators ("" is the nil error)
ErrInactive == "token is not active"
ErrProvider == "identity provider error"
ErrRecordNotFound == "record not found"
ErrPersistence == "persistence error"
ErrDuplicateKey == "duplicate key value violates unique constraint"
ErrMalformedBody == "malformed body"
ErrValidation == "validation failed"

\* AuthClient.RetrospectToken: nil only for a credential the provider holds active
RetrospectAnswers(token) ==
    (IF token \in Tokens THEN {""} ELSE {}) \cup {ErrInactive, ErrProvider}

\* the query parameters page and page_size, as strconv.Atoi reads them
\* (0: missing or not a number)
QueryParams == {[page |-> 0, page_size |-> 0], [page |-> 2, page_size |-> 1]}

\* request bodies: undecodable, failing Validate, or a document that carries
\* no id or the id 1, no owner or the owner u2, and a payload
NoBody == [kind |-> "none", id |-> 0, owner |-> None, val |-> 0]
Bodies ==
    {[kind |-> "malformed", id |-> 0, owner |-> None, val |-> 0],
     [kind |-> "invalid", id |-> 0, owner |-> None, val |-> 0]}
        \cup [kind : {"ok"}, id : {0, 1}, owner : {None, "u2"}, val : Vals]

\* the JSON document null: Unmarshal into &object sets the interface to nil
NullBody == [kind |-> "null", id |-> 0, owner |-> None, val |-> 0]

\* the body of an ERROR response
NoMsg == [fmt |-> "", res |-> <<>>, perm |-> <<>>]
Msg(text) == [fmt |-> text, res |-> <<>>, perm |-> <<>>]
MsgMissingHeader == Msg("unauthorized, missing bearer authorization header")
MsgInvalidHeader == Msg("unauthorized, invalid bearer authorization header")
MsgNoPermission(resource, permission) ==
    [fmt |-> "unauthorized, no permission for %s.%s", res |-> resource, perm |-> permission]

NoObject == [id |-> 0, owner |-> None, val |-> 0]
NoList == [Count |-> 0, PageSize |-> 0, Page |-> 0, Data |-> <<>>]

(***************************************************************************)
(* State.                                                                  *)
(*   users  the users table: subject id -> stored profile (None: no row)   *)
(*   rows   the resource tables: id -> row (NoRow: no row)                 *)
(*   req    the request in flight, its position and its response; offered   *)
(*          is the profile the provider holds for the credential's subject, *)
(*          authCalls counts the calls made to the provider and retroErr   *)
(*          is the answer of RetrospectToken; trace lists the calls made   *)
(*          to the provider and to the users table, in their order, and    *)
(*          absent1 tells that the subject had no record at the first lookup; *)
(*          affected is the number of rows the write of update or delete hit *)
(*   pure   the inputs and the result of a function evaluated on its own   *)
(***************************************************************************)
VARIABLES users, rows, req, pure
vars == <<users, rows, req, pure>>

IdleReq ==
    [pc |-> "idle", via |-> None, hdr |-> <<>>, res |-> <<>>, op |-> None,
     permission |-> <<>>, token |-> <<>>, offered |-> None, authCalls |-> 0,
     retroErr |-> None, trace |-> <<>>, absent1 |-> FALSE, userFromInfo |-> NoUser, user |-> NoUser,
     roles |-> <<>>, permissions |-> <<>>, rc |-> NoRequestContext,
     uid |-> 0, body |-> NoBody, object |-> NoObject,
     gate |-> None, rejectedAt |-> None, calls |-> 0, crud |-> 0, affected |-> 0,
     outcome |-> None, status |-> 0, err |-> "", msg |-> NoMsg,
     list |-> NoList, users0 |-> [u \in Users |-> None], rows0 |-> [i \in Ids |-> NoRow]]

NoPure ==
    [fn |-> None, resource |-> <<>>, permission |-> <<>>, permissions |-> <<>>,
     out |-> FALSE, evaluated |-> FALSE]

Init ==
    /\ users = [u \in Users |-> None]
    /\ rows = [i \in Ids |-> NoRow]
    /\ req = IdleReq
    /\ pure = NoPure

\* ERROR(w, statusCode, err): a nil error is answered with 400
ERROR(r, statusCode, text, msg) ==
    [r EXCEPT !.pc = "done", !.outcome = "response",
              !.status = IF text = "" THEN StatusBadRequest ELSE statusCode,
              !.err = text, !.msg = IF text = "" THEN NoMsg ELSE msg]

\* variant: the gate returns on a failure without writing the response
RejectSilently(r, at, text, msg) ==
    [r EXCEPT !.pc = "done", !.gate = "rejected", !.rejectedAt = at]

\* a rejection of the gate: logger.Error, ERROR(w, 401, err), return
Reject(r, at, text, msg) ==
    [ERROR(r, StatusUnauthorized, text, msg) EXCEPT !.gate = "rejected", !.rejectedAt = at]

\* an unrecovered panic of the handler goroutine: no response is written
Panic(r) == [r EXCEPT !.pc = "done", !.outcome = "panic"]

(***************************************************************************)
(* Server.Protected, step by step.                                         *)
(***************************************************************************)
\* a request arrives at a protected route of a registered resource
Begin ==
    /\ req.pc = "idle"
    /\ \E h \in Headers, res \in Registered, op \in Ops :
          /\ op = "create" => \E i \in Ids : rows[i] = NoRow
          /\ req' = [IdleReq EXCEPT !.pc = "parse", !.via = "gate", !.hdr = h,
                                    !.res = res, !.op = op,
                                    !.permission = RoutePermission(op),
                                    !.offered = "p1",
                                    !.users0 = users, !.rows0 = rows]
    /\ UNCHANGED <<users, rows, pure>>

\* Parse token
ParseCredential ==
    /\ req.pc = "parse"
    /\ req' =
          IF Len(req.hdr) < 7
          THEN Reject(req, "parse", "missing", MsgMissingHeader)
          ELSE IF ToLower(SubSeq(req.hdr, 1, 6)) # Bearer
          THEN Reject(req, "parse", "invalid", MsgInvalidHeader)
          ELSE [req EXCEPT !.pc = "introspect",
                           !.token = TrimSpace(SubSeq(req.hdr, 8, Len(req.hdr)))]
    /\ UNCHANGED <<users, rows, pure>>

\* variant: only the answer that the token is inactive fails the validation
ValidatedUnlessInactive(table, token, err) == err # ErrInactive

\* variant: a credential whose subject has a local record is not validated again
ValidatedOrKnown(table, token, err) ==
    err = "" \/ (token \in Tokens /\ table[Subject(token)] # None)

\* err == nil after RetrospectToken
Validated(table, token, err) == err = ""

\* Verify token is valid
ValidateCredential ==
    /\ req.pc = "introspect"
    /\ \E err \in RetrospectAnswers(req.token) :
          LET r == [req EXCEPT !.authCalls = @ + 1, !.retroErr = err,
                               !.trace = Append(@, "RetrospectToken")]
          IN  req' = IF ~Validated(users, req.token, err)
                     THEN Reject(r, "introspect", err, Msg(err))
                     ELSE [r EXCEPT !.pc = "identity"]
    /\ UNCHANGED <<users, rows, pure>>

\* AuthClient.GetUserFromToken
ResolveIdentity ==
    /\ req.pc = "identity"
    /\ \/ req' = Reject([req EXCEPT !.authCalls = @ + 1,
                                      !.trace = Append(@, "GetUserFromToken")],
                         "identity", ErrProvider, Msg(ErrProvider))
       \/ req' = [req EXCEPT !.pc = "load1", !.authCalls = @ + 1,
                             !.trace = Append(@, "GetUserFromToken"),
                             !.userFromInfo = [id |-> Subject(req.token),
                                               profile |-> req.offered]]
    /\ UNCHANGED <<users, rows, pure>>

\* DBLoadUser: the stored user, or nil with an error
DBLoadUser(table, userID, fails) ==
    IF fails \/ table[userID] = None THEN NoUser
    ELSE [id |-> userID, profile |-> table[userID]]

\* the first DBLoadUser, whose error is ignored
LoadUserFirst ==
    /\ req.pc = "load1"
    /\ \E fails \in BOOLEAN :
          LET loadedUser == DBLoadUser(users, req.userFromInfo.id, fails)
          IN  req' = [req EXCEPT !.pc = IF loadedUser = NoUser THEN "save" ELSE "load2",
                                 !.trace = Append(@, "DBLoadUser"),
                                 !.absent1 = users[req.userFromInfo.id] = None]
    /\ UNCHANGED <<users, rows, pure>>

\* DBSaveUser: insert; the primary key rejects a second row of the subject
DBSaveUserError(table, user, fails) ==
    IF fails THEN ErrPersistence
    ELSE IF table[user.id] # None THEN ErrDuplicateKey
    ELSE ""
DBSaveUserFails(table, user, fails) == DBSaveUserError(table, user, fails) # ""

SaveUser ==
    /\ req.pc = "save"
    /\ \E fails \in BOOLEAN :
          IF DBSaveUserFails(users, req.userFromInfo, fails)
          THEN /\ req' = Reject([req EXCEPT !.trace = Append(@, "DBSaveUser")],
                                "save", DBSaveUserError(users, req.userFromInfo, fails),
                                Msg(DBSaveUserError(users, req.userFromInfo, fails)))
               /\ users' = users
          ELSE /\ req' = [req EXCEPT !.pc = "load2", !.trace = Append(@, "DBSaveUser")]
               /\ users' = [users EXCEPT ![req.userFromInfo.id] = req.userFromInfo.profile]
    /\ UNCHANGED <<rows, pure>>

\* variant: the profile of the token is bound to the request
BoundUserFromToken(loadedUser, userFromInfo) == userFromInfo

\* context.WithValue(ctx, CurrentUserKey, loadedUser)
BoundUser(loadedUser, userFromInfo) == loadedUser

\* the second DBLoadUser: the stored record becomes the request's user
LoadUserSecond ==
    /\ req.pc = "load2"
    /\ \E fails \in BOOLEAN :
          LET loadedUser == DBLoadUser(users, req.userFromInfo.id, fails)
              r == [req EXCEPT !.trace = Append(@, "DBLoadUser")]
          IN  req' = IF loadedUser = NoUser
                     THEN Reject(r, "load2",
                                 IF fails THEN ErrPersistence ELSE ErrRecordNotFound,
                                 Msg(IF fails THEN ErrPersistence ELSE ErrRecordNotFound))
                     ELSE [r EXCEPT !.pc = "roles",
                                      !.user = BoundUser(loadedUser, req.userFromInfo)]
    /\ UNCHANGED <<users, rows, pure>>

\* AuthClient.GetRolesFromToken, then the expansion of the roles
ResolveRoles ==
    /\ req.pc = "roles"
    /\ \/ req' = Reject([req EXCEPT !.authCalls = @ + 1,
                                      !.trace = Append(@, "GetRolesFromToken")],
                         "roles", ErrProvider, Msg(ErrProvider))
       \/ \E roles \in RoleLists :
             req' = [req EXCEPT !.pc = "scope", !.roles = roles, !.authCalls = @ + 1,
                                !.trace = Append(@, "GetRolesFromToken"),
                                !.permissions = ExpandPermissions(roles)]
    /\ UNCHANGED <<users, rows, pure>>

\* common.NewRequestContext on the request with user and permissions
BuildRequestContext ==
    /\ req.pc = "scope"
    /\ \E query \in QueryParams :
          req' = [req EXCEPT !.pc = "authorize",
                             !.rc = NewRequestContext(query.page, query.page_size, req.user,
                                                      req.res, req.permissions)]
    /\ UNCHANGED <<users, rows, pure>>

\* next(w, rWithUserPermRC): the request is handed to the CRUD handler
Admit(r) == [r EXCEPT !.pc = "handler", !.gate = "admitted", !.calls = @ + 1]

\* variant: the rejection is written and the handler is called all the same
AuthorizeStepFallsThrough(r) ==
    IF havePermission(r.res, r.permission, r.permissions)
    THEN Admit(r)
    ELSE [Reject(r, "authorize", "forbidden", MsgNoPermission(r.res, r.permission))
             EXCEPT !.pc = "handler", !.calls = @ + 1]

\* Check permissions: next on success, the rejection and return otherwise
AuthorizeStep(r) ==
    IF havePermission(r.res, r.permission, r.permissions)
    THEN Admit(r)
    ELSE Reject(r, "authorize", "forbidden", MsgNoPermission(r.res, r.permission))

Authorize ==
    /\ req.pc = "authorize"
    /\ req' = AuthorizeStep(req)
    /\ UNCHANGED <<users, rows, pure>>

(***************************************************************************)
(* The CRUD handlers (api/base.go) over RequestContext (common).           *)
(***************************************************************************)
\* a handler invoked with a request context built without a caller identity
\* (NewRequestContextWithDetails is exported; the gate never passes a nil user)
BeginDirect ==
    /\ req.pc = "idle"
    /\ \E res \in Registered, op \in Ops,
          permissions \in {<<>>, <<PermOrderRead, PermOrderWrite>>, <<PermOrderGlobal>>} :
          /\ op = "create" => \E i \in Ids : rows[i] = NoRow
          /\ req' = [IdleReq EXCEPT
                        !.pc = "handler", !.via = "direct", !.res = res, !.op = op,
                        !.permission = RoutePermission(op),
                        !.permissions = permissions, !.calls = 1,
                        !.rc = NewRequestContextWithDetails(MinPageSize, 1, 0, NoUser,
                                                            res, permissions),
                        !.users0 = users, !.rows0 = rows]
    /\ UNCHANGED <<users, rows, pure>>

\* variant: the count is the number of rows of the page
GetAllCountingPage(rc, table) ==
    [Count |-> Len(FindAll(rc, table)),
     PageSize |-> rc.DBScopes.PageSize,
     Page |-> rc.DBScopes.Page,
     Data |-> FindAll(rc, table)]

\* RequestContext.GetAll: the list of a count and a page of rows
GetAll(rc, table) ==
    [Count |-> Count(rc, table),
     PageSize |-> rc.DBScopes.PageSize,
     Page |-> rc.DBScopes.Page,
     Data |-> FindAll(rc, table)]

\* Server.GetAll over RequestContext.GetAll
HandleGetAll ==
    /\ req.pc = "handler" /\ req.op = "list"
    /\ req' =
          IF ScopeFaults(req.rc) THEN Panic(req)
          ELSE [req EXCEPT !.pc = "done", !.outcome = "response", !.status = StatusOK,
                           !.crud = @ + 2,
                           !.list = GetAll(req.rc, rows)]
    /\ UNCHANGED <<users, rows, pure>>

\* the status Server.Get answers a failed Get with
GetErrorStatus == StatusNotFound

\* Server.Get over RequestContext.Get
HandleGet ==
    /\ req.pc = "handler" /\ req.op = "get"
    /\ \E uid \in Ids :
          req' =
             IF ScopeFaults(req.rc) THEN Panic([req EXCEPT !.uid = uid])
             ELSE IF FindByIDFinds(req.rc, rows, uid)
             THEN [req EXCEPT !.pc = "done", !.outcome = "response", !.uid = uid,
                              !.crud = @ + 1, !.status = StatusOK,
                              !.object = ObjectOf(rows, uid)]
             ELSE ERROR([req EXCEPT !.uid = uid, !.crud = @ + 1],
                        GetErrorStatus, ErrRecordNotFound, Msg(ErrRecordNotFound))
    /\ UNCHANGED <<users, rows, pure>>

\* json.Unmarshal and Validate: the error of a body, "" for none
DecodeError(body) ==
    IF body.kind = "malformed" THEN ErrMalformedBody
    ELSE IF body.kind = "invalid" THEN ErrValidation
    ELSE ""

\* variant: the owner of the body is kept when it names one
StampedOwnerFromBody(dbs, body) == IF body.owner # None THEN body.owner ELSE dbs.User.id

\* RequestContext.Create: SetUserID(ownerUser.ID) on an object of an owned resource
StampedOwner(dbs, body) == dbs.User.id

\* the row an object of the resource is stored as
RowOf(resource, owner, body) ==
    [res |-> resource, owner |-> IF IsGlobal(resource) THEN None ELSE owner,
     val |-> body.val]

\* Server.Create over RequestContext.Create
HandleCreate ==
    /\ req.pc = "handler" /\ req.op = "create"
    /\ \E body \in Bodies, uid \in Ids :
          /\ rows[uid] = NoRow
          /\ LET r == [req EXCEPT !.body = body]
                 dbs == req.rc.DBScopes
             IN  IF DecodeError(body) # ""
                 THEN /\ req' = ERROR(r, StatusInternalServerError, DecodeError(body),
                                      Msg(DecodeError(body)))
                      /\ rows' = rows
                 ELSE IF ~dbs.Global /\ dbs.User = NoUser
                 \* return nil, err with err = nil; the handler calls GetID on nil
                 THEN /\ req' = Panic(r)
                      /\ rows' = rows
                 ELSE LET row == RowOf(req.res, StampedOwner(dbs, body), body)
                      IN  /\ rows' = Save(rows, uid, row)
                          /\ req' = [r EXCEPT !.pc = "done", !.outcome = "response",
                                              !.crud = @ + 1, !.uid = uid,
                                              !.status = StatusCreated,
                                              !.object = ObjectOf(rows', uid)]
    /\ UNCHANGED <<users, pure>>

\* variant: the update is persisted without looking the row up
ExistenceCheckedNever(rc, table, uid) == TRUE

\* the FindByID of Update and Delete that confirms the row exists
ExistenceChecked(rc, table, uid) == FindByIDFinds(rc, table, uid)

\* variant: the row is looked up before the body is decoded and validated
UpdateOutcomeLookupFirst(rc, table, uid, body) ==
    IF ScopeFaults(rc) THEN [err |-> "", lookups |-> 0, fault |-> TRUE]
    ELSE IF ~ExistenceChecked(rc, table, uid)
    THEN [err |-> ErrRecordNotFound, lookups |-> 1, fault |-> FALSE]
    ELSE IF DecodeError(body) # ""
    THEN [err |-> DecodeError(body), lookups |-> 1, fault |-> FALSE]
    ELSE [err |-> "", lookups |-> 1, fault |-> body.kind = "null"]

\* RequestContext.Update up to the lookup of the row: Unmarshal, Validate (a nil
\* dereference on the nil object a null document leaves), FindByID; err is the
\* error returned, lookups the number of store calls, fault a panic
UpdateOutcome(rc, table, uid, body) ==
    IF DecodeError(body) # ""
    THEN [err |-> DecodeError(body), lookups |-> 0, fault |-> FALSE]
    ELSE IF body.kind = "null" \/ ScopeFaults(rc)
    THEN [err |-> "", lookups |-> 0, fault |-> TRUE]
    ELSE IF ~ExistenceChecked(rc, table, uid)
    THEN [err |-> ErrRecordNotFound, lookups |-> 1, fault |-> FALSE]
    ELSE [err |-> "", lookups |-> 1, fault |-> FALSE]

\* Server.Update over RequestContext.Update, up to the lookup of the row
UpdateCheck ==
    /\ req.pc = "handler" /\ req.op = "update"
    /\ \E uid \in Ids, body \in Bodies \cup {NullBody} :
          LET r == [req EXCEPT !.uid = uid, !.body = body]
              o == UpdateOutcome(req.rc, rows, uid, body)
          IN  req' =
                 IF o.fault THEN Panic([r EXCEPT !.crud = @ + o.lookups])
                 ELSE IF o.err # ""
                 THEN ERROR([r EXCEPT !.crud = @ + o.lookups], StatusInternalServerError,
                            o.err, Msg(o.err))
                 ELSE [r EXCEPT !.pc = "persist", !.crud = @ + o.lookups]
    /\ UNCHANGED <<users, rows, pure>>

\* variant: an id embedded in the body is kept
UpdatedIDFromBody(uid, body) == IF body.id # 0 THEN body.id ELSE uid

\* object.SetID(uid): the id of the object that is persisted and returned
UpdatedID(uid, body) == uid

\* object.SetID(uid) and object.Update
UpdatePersist ==
    /\ req.pc = "persist" /\ req.op = "update"
    /\ rows' = Update(req.rc, rows, UpdatedID(req.uid, req.body),
                      RowOf(req.res, req.body.owner, req.body))
    /\ req' = [req EXCEPT !.pc = "done", !.outcome = "response", !.crud = @ + 1,
                          !.affected = Affected(req.rc, rows, req.uid),
                          !.status = StatusOK,
                          !.object = [id |-> UpdatedID(req.uid, req.body),
                                      owner |-> RowOf(req.res, req.body.owner, req.body).owner,
                                      val |-> req.body.val]]
    /\ UNCHANGED <<users, pure>>

\* Server.Delete over RequestContext.Delete, up to the lookup of the row
DeleteCheck ==
    /\ req.pc = "handler" /\ req.op = "delete"
    /\ \E uid \in Ids :
          LET r == [req EXCEPT !.uid = uid]
          IN  req' =
                 IF ScopeFaults(req.rc) THEN Panic(r)
                 ELSE IF ~ExistenceChecked(req.rc, rows, uid)
                 THEN ERROR([r EXCEPT !.crud = @ + 1], StatusInternalServerError,
                            ErrRecordNotFound, Msg(ErrRecordNotFound))
                 ELSE [r EXCEPT !.pc = "persist", !.crud = @ + 1]
    /\ UNCHANGED <<users, rows, pure>>

\* object.Delete
DeletePersist ==
    /\ req.pc = "persist" /\ req.op = "delete"
    /\ rows' = Delete(req.rc, rows, req.uid)
    /\ req' = [req EXCEPT !.pc = "done", !.outcome = "response", !.crud = @ + 1,
                          !.affected = Affected(req.rc, rows, req.uid),
                          !.status = StatusNoContent]
    /\ UNCHANGED <<users, pure>>

\* the response is written; the next request may arrive
Finish ==
    /\ req.pc = "done"
    /\ req' = IdleReq
    /\ UNCHANGED <<users, rows, pure>>

Gate ==
    \/ ParseCredential \/ ValidateCredential \/ ResolveIdentity
    \/ LoadUserFirst \/ SaveUser \/ LoadUserSecond
    \/ ResolveRoles \/ BuildRequestContext \/ Authorize

Handlers ==
    \/ HandleGetAll \/ HandleGet \/ HandleCreate
    \/ UpdateCheck \/ UpdatePersist \/ DeleteCheck \/ DeletePersist

\* the server as wired by initRouter: every request passes the gate
Next == Begin \/ Gate \/ Handlers \/ Finish
Spec == Init /\ [][Next]_vars

\* the handlers also driven by a request context that carries no identity
NextDirect == Begin \/ BeginDirect \/ Gate \/ Handlers \/ Finish
SpecDirect == Init /\ [][NextDirect]_vars

(***************************************************************************)
(* The gate on its own: requests with any header and any profile, handed   *)
(* to a handler that is not followed further.  Here pure keeps how the     *)
(* previous request ended.                                                 *)
(***************************************************************************)
BeginGate ==
    /\ req.pc = "idle"
    /\ \E h \in GateHeaders, res \in Registered, op \in {"get", "create"}, p \in Profiles :
          req' = [IdleReq EXCEPT !.pc = "parse", !.via = "gate", !.hdr = h,
                                 !.res = res, !.op = op,
                                 !.permission = RoutePermission(op),
                                 !.offered = p,
                                 !.users0 = users, !.rows0 = rows]
    /\ UNCHANGED <<users, rows, pure>>

\* next(w, r) returns: the request was admitted
HandOff ==
    /\ req.pc = "handler"
    /\ pure' = [fn |-> "admitted", at |-> None, status |-> 0, msg |-> NoMsg,
                token |-> req.token, evaluated |-> FALSE]
    /\ req' = IdleReq
    /\ UNCHANGED <<users, rows>>

\* ERROR(w, 401, err) has answered: the request was rejected
Rejected ==
    /\ req.pc = "done"
    /\ pure' = [fn |-> "rejected", at |-> req.rejectedAt, status |-> req.status,
                msg |-> req.msg, token |-> req.token, evaluated |-> FALSE]
    /\ req' = IdleReq
    /\ UNCHANGED <<users, rows>>

NextGate == BeginGate \/ Gate \/ HandOff \/ Rejected
SpecGate == Init /\ [][NextGate]_vars

\* the gate when every call to the provider and to the store returns: a request
\* that can take its next step does take it
SpecGateFair == Init /\ [][NextGate]_vars /\ WF_vars(Gate)

(***************************************************************************)
(* Two requests in flight.  Each request is served by a goroutine of its   *)
(* own; the steps of the gate of one request interleave with those of the  *)
(* other at the calls of the provider and of the store.  Here pure is the  *)
(* request that is not taking the next step.                               *)
(***************************************************************************)
InitRace ==
    /\ users = [u \in Users |-> None]
    /\ rows = [i \in Ids |-> NoRow]
    /\ req = IdleReq
    /\ pure = IdleReq

\* a request of one of the two subjects arrives: GET on order
BeginRace ==
    /\ req.pc = "idle"
    /\ \E h \in {HdrBearerA, HdrBearerB} :
          req' = [IdleReq EXCEPT !.pc = "parse", !.via = "gate", !.hdr = h,
                                 !.res = ResOrder, !.op = "get",
                                 !.permission = RoutePermission("get"),
                                 !.offered = "p1",
                                 !.users0 = users, !.rows0 = rows]
    /\ UNCHANGED <<users, rows, pure>>

\* the scheduler runs the other goroutine
Switch ==
    /\ req' = pure
    /\ pure' = req
    /\ UNCHANGED <<users, rows>>

NextRace == BeginRace \/ Gate \/ Switch
SpecRace == InitRace /\ [][NextRace]_vars

(***************************************************************************)
(* Two admitted requests in flight on the order resource.  The subject u1  *)
(* has its local record, the role Customer and an order under every id;    *)
(* the handlers of the two requests interleave at the calls of the store.  *)
(* Here pure is the request that is not taking the next step.              *)
(***************************************************************************)
InitRaceCrud ==
    /\ users = [u \in Users |-> IF u = "u1" THEN "p1" ELSE None]
    /\ rows = [i \in Ids |-> [res |-> ResOrder, owner |-> "u1", val |-> 1]]
    /\ req = IdleReq
    /\ pure = IdleReq

\* a request of u1 that the gate has admitted to update or delete an order
BeginAdmitted ==
    /\ req.pc = "idle"
    /\ \E op \in {"update", "delete"} :
          /\ req' = Admit([IdleReq EXCEPT
                              !.via = "gate", !.hdr = HdrBearerA, !.token = <<"A">>,
                              !.res = ResOrder, !.op = op,
                              !.permission = RoutePermission(op),
                              !.offered = "p1", !.retroErr = "",
                              !.userFromInfo = [id |-> "u1", profile |-> "p1"],
                              !.user = [id |-> "u1", profile |-> "p1"],
                              !.roles = <<"Customer">>,
                              !.permissions = ExpandPermissions(<<"Customer">>),
                              !.rc = NewRequestContext(0, 0, [id |-> "u1", profile |-> "p1"],
                                                       ResOrder,
                                                       ExpandPermissions(<<"Customer">>)),
                              !.users0 = users, !.rows0 = rows])
    /\ UNCHANGED <<users, rows, pure>>

NextRaceCrud ==
    \/ BeginAdmitted \/ Switch \/ Finish
    \/ UpdateCheck \/ UpdatePersist \/ DeleteCheck \/ DeletePersist
SpecRaceCrud == InitRaceCrud /\ [][NextRaceCrud]_vars

(***************************************************************************)
(* The permission evaluator on its own.                                    *)
(***************************************************************************)
\* permission strings handed to the evaluator
PermissionPool ==
    {PermOrderRead, PermOrderReadMixed, PermOrderWrite, PermOrderGlobal,
     PermOrderGlobalUpper, PermCategoryRead, PermCategoryWrite}

RECURSIVE SeqsUpTo(_, _)
SeqsUpTo(S, n) ==
    IF n = 0 THEN {<<>>}
    ELSE SeqsUpTo(S, n - 1)
            \cup {Append(q, x) : q \in {t \in SeqsUpTo(S, n - 1) : Len(t) = n - 1}, x \in S}

InitPerm ==
    /\ users = [u \in Users |-> None]
    /\ rows = [i \in Ids |-> NoRow]
    /\ req = IdleReq
    /\ \E resource \in {ResOrder, ResCategory, ResItem},
          permission \in {READ, WRITE, GLOBAL},
          permissions \in SeqsUpTo(PermissionPool, MaxPerms) :
          pure = [NoPure EXCEPT !.resource = resource, !.permission = permission,
                                !.permissions = permissions]

EvalHavePermission ==
    /\ ~pure.evaluated
    /\ pure' = [pure EXCEPT !.fn = "havePermission", !.evaluated = TRUE,
                            !.out = havePermission(pure.resource, pure.permission,
                                                   pure.permissions)]
    /\ UNCHANGED <<users, rows, req>>

EvalHaveGlobalPermission ==
    /\ ~pure.evaluated
    /\ pure' = [pure EXCEPT !.fn = "haveGlobalPermission", !.evaluated = TRUE,
                            !.permission = GLOBAL,
                            !.out = haveGlobalPermission(pure.resource, pure.permissions)]
    /\ UNCHANGED <<users, rows, req>>

NextPerm == EvalHavePermission \/ EvalHaveGlobalPermission
SpecPerm == InitPerm /\ [][NextPerm]_vars

(***************************************************************************)
(* The pagination parameters on their own.                                 *)
(***************************************************************************)
\* the decimal digits and their values
DigitChars == <<"0", "1", "2", "3", "4", "5", "6", "7", "8", "9">>
IsDigit(c) == \E d \in 1..10 : DigitChars[d] = c
DigitValue(c) == (CHOOSE d \in 1..10 : DigitChars[d] = c) - 1

RECURSIVE DigitsValue(_, _)
DigitsValue(s, acc) ==
    IF s = <<>> THEN acc ELSE DigitsValue(Tail(s), acc * 10 + DigitValue(Head(s)))

\* strconv.Atoi with its error ignored: an optional sign and decimal digits give
\* the number, every other text gives 0; a number outside the range of int gives
\* the nearest end of the range (the value returned along with ErrRange)
Atoi(s) ==
    LET signed == s # <<>> /\ Head(s) \in {"+", "-"}
        digits == IF signed THEN Tail(s) ELSE s
        n == IF signed /\ Head(s) = "-" THEN 0 - DigitsValue(digits, 0)
             ELSE DigitsValue(digits, 0)
    IN  IF digits = <<>> \/ \E i \in 1..Len(digits) : ~IsDigit(digits[i]) THEN 0
        ELSE IF n > MaxInt THEN MaxInt
        ELSE IF n < MinInt THEN MinInt
        ELSE n

\* the decimal text of an integer
RECURSIVE NatText(_)
NatText(n) ==
    IF n < 10 THEN <<DigitChars[n + 1]>>
    ELSE NatText(n \div 10) \o <<DigitChars[(n % 10) + 1]>>
Itoa(n) == IF n < 0 THEN <<"-">> \o NatText(0 - n) ELSE NatText(n)

\* query.Get of a parameter: its text, empty when the parameter is missing
MissingText == <<>>
NonNumericTexts ==
    {<<"a", "b", "c">>, <<"1", "x">>, <<" ", "5">>, <<"-">>, <<"5", ".", "0">>}
NumericTexts ==
    {<<"-", "5">>, <<"-", "1">>, <<"0">>, <<"1">>, <<"2">>, <<"5">>, <<"9">>, <<"1", "0">>,
     <<"1", "1">>, <<"2", "5">>, <<"4", "9", "9">>, <<"5", "0", "0">>, <<"5", "0", "1">>,
     <<"9", "9", "9", "9">>, <<"+", "7">>}
\* numbers at the end of the range of int, one past it, and a number in the range
\* whose double is out of it
WideNumbers == {MaxInt, MaxInt + 1, 2^(IntBits - 2) + 1}
WideTexts == {Itoa(n) : n \in WideNumbers}
ParamTexts == {MissingText} \cup NonNumericTexts \cup NumericTexts \cup WideTexts

NoPage ==
    [fn |-> None, page |-> <<>>, page_size |-> <<>>,
     scopes |-> NewDBScopes(0, 0, 0, NoUser, FALSE), list |-> NoList,
     evaluated |-> FALSE]

InitPage ==
    /\ users = [u \in Users |-> None]
    /\ rows = [i \in Ids |-> NoRow]
    /\ req = IdleReq
    /\ \E page \in ParamTexts, page_size \in ParamTexts :
          pure = [NoPage EXCEPT !.page = page, !.page_size = page_size]

\* NewDBScopesFromRequest on a request with the two parameters and no user
EvalScopes ==
    /\ ~pure.evaluated
    /\ pure' = [pure EXCEPT
                   !.fn = "NewDBScopesFromRequest", !.evaluated = TRUE,
                   !.scopes = NewDBScopesFromRequest(Atoi(pure.page), Atoi(pure.page_size),
                                                     NoUser, FALSE)]
    /\ UNCHANGED <<users, rows, req>>

\* RequestContext.GetAll of a global resource on a request with the two parameters
EvalGetAll ==
    /\ ~pure.evaluated
    /\ LET rc == NewRequestContext(Atoi(pure.page), Atoi(pure.page_size), NoUser,
                                   ResCategory, <<>>)
       IN  pure' = [pure EXCEPT !.fn = "GetAll", !.evaluated = TRUE,
                                !.scopes = rc.DBScopes, !.list = GetAll(rc, rows)]
    /\ UNCHANGED <<users, rows, req>>

NextPage == EvalScopes \/ EvalGetAll
SpecPage == InitPage /\ [][NextPage]_vars

(***************************************************************************)
(* The resource registry on its own.  Here pure holds the registry         *)
(* (Resources), the Register calls made so far (log) and the answers of    *)
(* the last lookup.                                                        *)
(***************************************************************************)
\* resource names and object types handed to Register; map keys are compared
\* exactly, so "Order" is another name than "order"
ResOrderCapital == <<"O", "r", "d", "e", "r">>
RegisterNames == {ResOrder, ResCategory, ResOrderCapital}
LookupNames == RegisterNames \cup {ResItem}
ObjectTypes == {"T1", "T2"}
ModelObjects == [name : RegisterNames, isGlobal : BOOLEAN, type : ObjectTypes]

\* variant: a name that is registered keeps its first registration
RegisterKeepingFirst(resources, object) ==
    IF object.name \in DOMAIN resources THEN resources
    ELSE [n \in DOMAIN resources \cup {object.name} |->
            IF n = object.name
            THEN [Name |-> object.name, IsGlobal |-> object.isGlobal, Type |-> object.type]
            ELSE resources[n]]

\* Resources.Register: resources.Resources[name] = Resource{...}
Register(resources, object) ==
    [n \in DOMAIN resources \cup {object.name} |->
        IF n = object.name
        THEN [Name |-> object.name, IsGlobal |-> object.isGlobal, Type |-> object.type]
        ELSE resources[n]]

\* Resources.Names: the keys of the map, in no particular order
Names(resources) == DOMAIN resources

\* Resources.New: a blank object of the registered type, or an error
New(resources, name) ==
    IF name \notin DOMAIN resources
    THEN [obj |-> None, err |-> "unrecognized resource name: %s", arg |-> name]
    ELSE [obj |-> [type |-> resources[name].Type, id |-> 0, owner |-> None, val |-> 0],
          err |-> "", arg |-> <<>>]

\* Resources.IsGlobal on a registry
ResourcesIsGlobal(resources, name) ==
    IF name \notin DOMAIN resources THEN FALSE ELSE resources[name].IsGlobal

NoAnswer == [asked |-> FALSE, name |-> <<>>, names |-> {}, new |-> None, isGlobal |-> FALSE]
EmptyRegistry == [fn |-> "registry", Resources |-> <<>>, log |-> <<>>, answer |-> NoAnswer]

InitRegistry ==
    /\ users = [u \in Users |-> None]
    /\ rows = [i \in Ids |-> NoRow]
    /\ req = IdleReq
    /\ pure = EmptyRegistry

RegisterObject ==
    /\ Len(pure.log) < MaxRegs
    /\ \E object \in ModelObjects :
          pure' = [pure EXCEPT !.Resources = Register(pure.Resources, object),
                               !.log = Append(pure.log, object),
                               !.answer = NoAnswer]
    /\ UNCHANGED <<users, rows, req>>

\* Names, New and IsGlobal asked of the registry
LookUp ==
    /\ ~pure.answer.asked
    /\ \E name \in LookupNames :
          pure' = [pure EXCEPT !.answer =
                      [asked |-> TRUE, name |-> name,
                       names |-> Names(pure.Resources),
                       new |-> New(pure.Resources, name),
                       isGlobal |-> ResourcesIsGlobal(pure.Resources, name)]]
    /\ UNCHANGED <<users, rows, req>>

NextRegistry == RegisterObject \/ LookUp
SpecRegistry == InitRegistry /\ [][NextRegistry]_vars

(***************************************************************************)
(* Properties.                                                             *)
(***************************************************************************)
\* the permission set contains "<resource>.<action>", compared without case
Holds(resource, action, permissions) ==
    LET wanted == ToLower(resource \o <<".">> \o action)
    IN  \E i \in DOMAIN permissions :
           /\ Len(permissions[i]) = Len(wanted)
           /\ ToLower(permissions[i]) = wanted

\* the resources registered as global, and the action a route requires
GlobalResources == {ResCategory}
RequiredAction(op) == IF op = "list" \/ op = "get" THEN READ ELSE WRITE

\* the ids of all rows of a resource, whoever owns them
AllIds(resource) == {i \in Ids : rows[i] # NoRow /\ rows[i].res = resource}

\* the request has been answered after the gate admitted it
Answered(op) ==
    req.pc = "done" /\ req.via = "gate" /\ req.gate = "admitted" /\ req.op = op

\* C1: a caller without <resource>.global lists only rows it owns on an owned
\* resource, and its get of a row of another owner is answered 404 without the row.
C1_ReadIsolation ==
    (/\ req.pc = "done" /\ req.via = "gate" /\ req.gate = "admitted"
     /\ req.res \notin GlobalResources
     /\ ~Holds(req.res, GLOBAL, req.permissions))
    =>
    /\ req.op = "list" =>
          /\ req.outcome = "response" /\ req.status = StatusOK
          /\ \A k \in DOMAIN req.list.Data :
                /\ req.list.Data[k].owner = req.user.id
                /\ req.list.Data[k].id \in AllIds(req.res)
                /\ rows[req.list.Data[k].id].owner = req.user.id
    /\ (req.op = "get" /\ req.uid \in AllIds(req.res)
            /\ rows[req.uid].owner # req.user.id) =>
          /\ req.outcome = "response" /\ req.status = StatusNotFound
          /\ req.object = NoObject

C1_Witness ==
    /\ Answered("get") /\ req.res = ResOrder
    /\ ~Holds(req.res, GLOBAL, req.permissions)
    /\ req.uid \in AllIds(ResOrder)
    /\ rows[req.uid].owner \in Users \ {req.user.id}
    /\ req.status = StatusNotFound

\* when the request arrived its scope showed a row with the id: the row existed in
\* the resource and the resource is global, or the caller holds <resource>.global,
\* or owned the row
Visible ==
    /\ req.uid \in Ids
    /\ req.rows0[req.uid] # NoRow /\ req.rows0[req.uid].res = req.res
    /\ \/ req.res \in GlobalResources
       \/ Holds(req.res, GLOBAL, req.permissions)
       \/ req.rows0[req.uid].owner = req.user.id

C3_RejectedLeavesStateUnchanged ==
    (req.pc = "done" /\ req.via = "gate" /\ req.gate = "rejected")
    => (users = req.users0 /\ rows = req.rows0)

\* C4: the CRUD handler is invoked exactly once for an admitted request and never
\* for a rejected one, and a rejected request performs no persistence operation
\* on the resource.
C4_HandlerOnlyIfAdmitted ==
    req.via = "gate" =>
    /\ req.pc = "done" => req.gate \in {"admitted", "rejected"}
    /\ req.gate = "admitted" => req.calls = 1
    /\ req.gate # "admitted" => (req.calls = 0 /\ req.crud = 0 /\ rows = req.rows0)
    /\ req.pc \in {"handler", "persist"} => req.gate = "admitted"

C4_Witness ==
    /\ req.pc = "done" /\ req.via = "gate" /\ req.gate = "rejected"
    /\ req.rejectedAt = "authorize" /\ req.op = "delete"
    /\ AllIds(req.res) # {} /\ req.calls = 0

\* C5: a request is admitted only if the caller's permissions contain
\* <resource>.read on the list and get routes and <resource>.write on the create,
\* update and delete routes; a request that reaches the check without it is answered
\* with the rejection that names the resource and the action.
C5_RequiredPermission ==
    (req.pc = "done" /\ req.via = "gate")
    =>
    /\ req.gate = "admitted" => Holds(req.res, RequiredAction(req.op), req.permissions)
    /\ req.rejectedAt \notin {"parse", "introspect", "identity", "save", "load2", "roles"}
          => (Holds(req.res, RequiredAction(req.op), req.permissions)
                <=> req.gate = "admitted")
    /\ req.rejectedAt = "authorize" =>
          /\ req.status = StatusUnauthorized
          /\ req.msg = [fmt |-> "unauthorized, no permission for %s.%s",
                        res |-> req.res, perm |-> RequiredAction(req.op)]

C5_Witness ==
    /\ req.pc = "done" /\ req.via = "gate" /\ req.rejectedAt = "authorize"
    /\ req.res = ResOrder /\ req.op = "get"
    /\ Holds(ResOrder, GLOBAL, req.permissions)
    /\ ~Holds(ResOrder, READ, req.permissions)

\* C6: the evaluator answers true exactly when an element of the permission list
\* is "<resource>.<action>" up to case; never for the empty list, for a resource no
\* string names, or across the actions global and read/write.
C6_Authorized ==
    pure.evaluated =>
    /\ pure.fn = "haveGlobalPermission" => pure.permission = GLOBAL
    /\ pure.out = Holds(pure.resource, pure.permission, pure.permissions)
    /\ pure.permissions = <<>> => ~pure.out
    /\ pure.resource = ResItem => ~pure.out
    /\ (/\ pure.permission \in {READ, WRITE}
        /\ \A i \in DOMAIN pure.permissions :
              ToLower(pure.permissions[i]) \in {PermOrderGlobal, Sprintf(ResCategory, GLOBAL)})
          => ~pure.out
    /\ (/\ pure.permission = GLOBAL
        /\ \A i \in DOMAIN pure.permissions :
              ToLower(pure.permissions[i]) \notin {PermOrderGlobal, Sprintf(ResCategory, GLOBAL)})
          => ~pure.out

C6_Witness ==
    /\ pure.evaluated /\ pure.fn = "havePermission" /\ pure.out
    /\ pure.resource = ResOrder /\ pure.permission = READ
    /\ pure.permissions = <<PermOrderGlobalUpper, PermOrderReadMixed>>

\* the number of rows of the resource with a smaller id
Rank(resource, i) == Cardinality({j \in AllIds(resource) : j < i})

C8_NoIdentitySeesNothing ==
    (/\ req.pc = "done" /\ req.via = "direct"
     /\ req.rc.DBScopes.User = NoUser
     /\ req.res \notin GlobalResources
     /\ ~Holds(req.res, GLOBAL, req.permissions)
     /\ req.op \in {"list", "get"})
    =>
    /\ req.outcome = "response"
    /\ req.op = "list" => (req.status = StatusOK /\ req.list.Data = <<>>)
    /\ req.op = "get" => (req.status = StatusNotFound /\ req.object = NoObject)

C10_CreateWithoutIdentityFails ==
    (/\ req.pc = "done" /\ req.via = "direct" /\ req.op = "create"
     /\ req.rc.DBScopes.User = NoUser
     /\ req.res \notin GlobalResources)
    =>
    /\ req.err # ""
    /\ rows = req.rows0
    /\ req.outcome = "response" /\ req.status >= StatusBadRequest

\* the numbers in the range of int whose decimal texts are among the parameters drawn
ParamNumbers ==
    {-5, -1, 0, 1, 2, 5, 9, 10, 11, 25, 499, 500, 501, 9999}
        \cup {n \in WideNumbers : n <= MaxInt}

\* C11: whatever the page_size parameter, the effective page size lies in
\* [MinPageSize, MaxPageSize]; a missing or non-numeric parameter gives MinPageSize
\* and a number above MaxPageSize gives MaxPageSize.
C11_PageSizeClamped ==
    pure.evaluated =>
    /\ pure.scopes.PageSize >= MinPageSize /\ pure.scopes.PageSize <= MaxPageSize
    /\ pure.page_size \in {MissingText} \cup NonNumericTexts
          => pure.scopes.PageSize = MinPageSize
    /\ \A n \in ParamNumbers \cup WideNumbers :
          (pure.page_size = Itoa(n) /\ n > MaxPageSize) => pure.scopes.PageSize = MaxPageSize

C13_PathIdWins ==
    (Answered("update") /\ req.outcome = "response" /\ req.status = StatusOK)
    =>
    /\ req.object.id = req.uid
    /\ req.object.val = req.body.val
    /\ req.rows0[req.uid] # NoRow /\ rows[req.uid] # NoRow
    /\ rows[req.uid].res = req.res /\ rows[req.uid].val = req.body.val
    /\ \A i \in Ids \ {req.uid} : rows[i] = req.rows0[i]

C13_Witness ==
    /\ Answered("update") /\ req.status = StatusOK
    /\ req.body.id \in Ids \ {req.uid}
    /\ req.rows0[req.uid].val # req.body.val
    /\ rows[req.uid].val = req.body.val
    /\ rows[req.body.id] = req.rows0[req.body.id]

\* the scheme token of a header: its characters up to the first space
RECURSIVE SchemeToken(_)
SchemeToken(h) ==
    IF h = <<>> \/ Head(h) = " " THEN <<>> ELSE <<Head(h)>> \o SchemeToken(Tail(h))

\* the header has the scheme token bearer, in any case, and is longer than it
HasBearerScheme(h) ==
    /\ ToLower(SchemeToken(h)) = <<"b", "e", "a", "r", "e", "r">>
    /\ Len(h) > Len(SchemeToken(h))

\* C14: unless the Authorization header has the scheme token bearer (in any case)
\* and is longer than it, the request is rejected with 401 at the parse step and
\* the provider is not called; without a header the body is the missing-header error.
C14_ParseCredential ==
    req.via = "gate" =>
    /\ req.authCalls > 0 => HasBearerScheme(req.hdr)
    /\ (req.pc = "done" /\ ~HasBearerScheme(req.hdr)) =>
          /\ req.gate = "rejected" /\ req.rejectedAt = "parse"
          /\ req.status = StatusUnauthorized
    /\ (req.pc = "done" /\ req.hdr = <<>>) =>
          /\ req.status = StatusUnauthorized
          /\ req.msg.fmt = "unauthorized, missing bearer authorization header"

\* the steps of the gate that are rejected on an error of the provider or the store
CollaboratorSteps == {"introspect", "identity", "save", "load2", "roles"}

\* C15: every rejection of the gate has status 401, and two requests with the same
\* credential rejected at the same step, on whatever error text of the provider or
\* the store, receive the same response.
C15_UniformRejection ==
    (req.pc = "done" /\ req.via = "gate" /\ req.gate = "rejected")
    =>
    /\ req.status = StatusUnauthorized
    /\ (/\ pure.fn = "rejected" /\ pure.at = req.rejectedAt
        /\ pure.token = req.token
        /\ req.rejectedAt \in CollaboratorSteps)
          => (req.status = pure.status /\ req.msg = pure.msg)

\* C16: for create, get, update and delete the status follows the kind of error:
\* NotFound gives 404, a malformed or invalid body gives a caller-error status
\* (4xx), a persistence failure gives a server-error status (5xx), no error gives
\* a success status.
C16_StatusByErrorKind ==
    (/\ req.pc = "done" /\ req.via = "gate" /\ req.gate = "admitted"
     /\ req.outcome = "response"
     /\ req.op \in {"create", "get", "update", "delete"})
    =>
    /\ req.err = ErrRecordNotFound => req.status = StatusNotFound
    /\ req.err \in {ErrMalformedBody, ErrValidation} =>
          (req.status >= StatusBadRequest /\ req.status < StatusInternalServerError)
    /\ req.err = ErrPersistence => req.status >= StatusInternalServerError
    /\ req.err = "" => (req.status >= StatusOK /\ req.status < StatusBadRequest)

\* C17: every request that passes the parse step asks the provider to validate
\* the credential; a request for which the provider reports an error is rejected,
\* and a request is admitted on the permissions of the roles the provider returned
\* for it, however the previous request with the same credential ended.
C17_NoCarryOver ==
    req.via = "gate" =>
    /\ (req.pc \notin {"idle", "parse", "introspect"} /\ req.rejectedAt # "parse")
          => (req.retroErr # None /\ req.authCalls >= 1)
    /\ req.retroErr \notin {None, ""}
          => (req.pc = "done" /\ req.gate = "rejected" /\ req.rejectedAt = "introspect")
    /\ req.pc \in {"scope", "authorize", "handler"}
          => req.permissions = ExpandPermissions(req.roles)
    /\ req.gate = "admitted" =>
          /\ req.retroErr = ""
          /\ Holds(req.res, RequiredAction(req.op), ExpandPermissions(req.roles))
    /\ (req.pc = "done" /\ req.rejectedAt = "authorize")
          => ~Holds(req.res, RequiredAction(req.op), ExpandPermissions(req.roles))

C17_Witness ==
    /\ pure.fn = "admitted" /\ pure.token = req.token
    /\ req.pc = "done" /\ req.gate = "rejected"
    /\ req.retroErr = ErrInactive

\* the request has resolved the identity of its credential
Resolved == req.via = "gate" /\ req.userFromInfo # NoUser

\* the request has a user bound to it
Materialized ==
    \/ req.pc \in {"roles", "scope", "authorize", "handler"}
    \/ req.pc = "done" /\ (req.gate = "admitted" \/ req.rejectedAt \in {"roles", "authorize"})

\* C18: once the identity is resolved, a subject without a local record gets one
\* made of the resolved profile, a subject with a local record keeps it unchanged,
\* no request is rejected at the first lookup, the user bound to the request is
\* the stored record, and the records of other subjects are untouched.
C18_MaterializeLocalUser ==
    Resolved =>
    LET id == req.userFromInfo.id
    IN  /\ \A u \in Users \ {id} : users[u] = req.users0[u]
        /\ req.users0[id] # None => users = req.users0
        /\ req.users0[id] = None => users[id] \in {None, req.userFromInfo.profile}
        /\ (req.users0[id] = None /\ Materialized) => users[id] = req.userFromInfo.profile
        /\ req.rejectedAt # "load1"
        /\ Materialized =>
              /\ users[id] # None
              /\ req.user = [id |-> id, profile |-> users[id]]
        /\ req.rc.built => req.rc.DBScopes.User = req.user

C18_Witness ==
    /\ Resolved /\ req.pc = "handler" /\ req.gate = "admitted"
    /\ req.users0[req.userFromInfo.id] # None
    /\ req.userFromInfo.profile # req.users0[req.userFromInfo.id]
    /\ req.user.profile = req.users0[req.userFromInfo.id]
    /\ users = req.users0

\* the ids of the rows of the request's resource that satisfy its ownership
\* predicate, and the number of those with a smaller id
Seen ==
    {i \in AllIds(req.res) :
        \/ req.res \in GlobalResources
        \/ rows[i].owner = req.user.id
        \/ Holds(req.res, GLOBAL, req.permissions)}
SeenBefore(i) == Cardinality({j \in Seen : j < i})

CallsOf(name) == {k \in DOMAIN pure.log : pure.log[k].name = name}
LastCallOf(name) == CHOOSE k \in CallsOf(name) : \A j \in CallsOf(name) : j <= k

\* C20: after any sequence of Register calls, Names is the set of the names
\* registered, New gives a blank object for a registered name and the
\* unrecognized-name error for any other, and IsGlobal gives the flag of the last
\* registration of the name, false for a name that is not registered.
C20_Registry ==
    (pure.fn = "registry" /\ pure.answer.asked) =>
    LET name == pure.answer.name
    IN  /\ pure.answer.names = {pure.log[k].name : k \in DOMAIN pure.log}
        /\ CallsOf(name) = {} =>
              /\ pure.answer.new.obj = None
              /\ pure.answer.new.err = "unrecognized resource name: %s"
              /\ pure.answer.new.arg = name
              /\ pure.answer.isGlobal = FALSE
        /\ CallsOf(name) # {} =>
              /\ pure.answer.new.err = ""
              /\ pure.answer.new.obj =
                    [type |-> pure.log[LastCallOf(name)].type,
                     id |-> 0, owner |-> None, val |-> 0]
              /\ pure.answer.isGlobal = pure.log[LastCallOf(name)].isGlobal

C20_Witness ==
    /\ pure.fn = "registry" /\ pure.answer.asked
    /\ pure.answer.name = ResOrder
    /\ Cardinality(CallsOf(ResOrder)) = 2
    /\ \E j \in CallsOf(ResOrder) : pure.log[j].isGlobal # pure.answer.isGlobal
    /\ pure.answer.isGlobal
    /\ pure.answer.names = {ResOrder, ResOrderCapital}

\* the union of the table entries of the roles that have one
RolePermissionSet(roles) ==
    UNION {{RoleTable(roles[k])[j] : j \in DOMAIN RoleTable(roles[k])} :
              k \in {n \in DOMAIN roles : roles[n] \in MappedRoles}}

\* a set of permissions contains "<resource>.<action>", compared without case
Grants(S, resource, action) ==
    \E q \in S : ToLower(q) = ToLower(resource \o <<".">> \o action)

\* C21: the permissions the request is authorized on and scoped with are exactly
\* the union of the table entries of the roles the provider returned; a role
\* without an entry adds nothing and does not reject the request, and no roles
\* give no permissions.
C21_ExpandPermissions ==
    (/\ req.via = "gate"
     /\ \/ req.pc \in {"scope", "authorize", "handler"}
        \/ req.pc = "done" /\ req.rejectedAt = "authorize")
    =>
    LET S == RolePermissionSet(req.roles)
    IN  /\ {req.permissions[i] : i \in DOMAIN req.permissions} = S
        /\ req.roles = <<>> => req.permissions = <<>>
        /\ req.pc = "handler" =>
              (req.gate = "admitted" /\ Grants(S, req.res, RequiredAction(req.op)))
        /\ req.pc = "done" => ~Grants(S, req.res, RequiredAction(req.op))
        /\ req.rc.built =>
              (req.rc.owned <=> (req.res \notin GlobalResources /\ ~Grants(S, req.res, GLOBAL)))

C21_Witness ==
    /\ req.via = "gate" /\ req.pc = "handler" /\ req.gate = "admitted"
    /\ req.roles = <<"Guest", "Clerk">>
    /\ req.res = ResOrder /\ req.op = "get"
    /\ req.permissions = <<PermOrderReadMixed>>

\* C22: a request calls the provider's validation at most once, only when the
\* parse step has passed, and as the first call of all; when the validation
\* reports an error or an inactive token no call follows it and the users table is
\* as the request found it.
C22_ValidateOnceAndFirst ==
    req.via = "gate" =>
    /\ Cardinality({k \in DOMAIN req.trace : req.trace[k] = "RetrospectToken"}) <= 1
    /\ req.trace # <<>> =>
          /\ req.trace[1] = "RetrospectToken"
          /\ req.pc \notin {"idle", "parse"} /\ req.rejectedAt # "parse"
          /\ Len(req.hdr) >= 7 /\ ToLower(SubSeq(req.hdr, 1, 6)) = Bearer
    /\ req.pc \in {"idle", "parse", "introspect"} =>
          (req.trace = <<>> /\ req.retroErr = None)
    /\ req.retroErr \notin {None, ""} =>
          /\ req.trace = <<"RetrospectToken">>
          /\ req.pc = "done" /\ req.gate = "rejected"
          /\ req.userFromInfo = NoUser /\ req.user = NoUser /\ req.roles = <<>>
          /\ users = req.users0
    /\ Len(req.trace) > 1 => req.retroErr = ""

C22_Witness ==
    /\ req.via = "gate" /\ req.pc = "done" /\ req.gate = "rejected"
    /\ req.retroErr = ErrInactive /\ req.token = <<"A">>
    /\ req.trace = <<"RetrospectToken">>
    /\ users["u1"] = None

\* C23: the request context (the access scope and the scoped handle) is built only
\* once the permission check has succeeded; a request rejected for lack of the
\* permission has built none.
C23_AdmitAfterAuthorize ==
    req.via = "gate" =>
    /\ req.rc.built => req.gate = "admitted"
    /\ (req.pc = "done" /\ req.rejectedAt = "authorize") => req.rc = NoRequestContext

\* C24: an update whose body does not decode or does not validate fails with that
\* error before any call of the store, also for an id that has no row, and leaves
\* the rows unchanged; otherwise the row is looked up once, a missing row ends the
\* update with NotFound, and only then the object is given the path id and written.
C24_UpdateOrder ==
    Answered("update") =>
    /\ req.body.kind \in {"malformed", "invalid"} =>
          /\ req.crud = 0 /\ rows = req.rows0
          /\ req.outcome = "response" /\ req.status >= StatusBadRequest
          /\ req.err = (IF req.body.kind = "malformed" THEN ErrMalformedBody
                        ELSE ErrValidation)
    /\ req.body.kind = "null" => (req.crud = 0 /\ rows = req.rows0)
    /\ req.body.kind = "ok" =>
          /\ req.err \in {"", ErrRecordNotFound}
          /\ ~Visible => req.err = ErrRecordNotFound
          /\ req.err = ErrRecordNotFound => (req.crud = 1 /\ rows = req.rows0)
          /\ req.err = "" => (req.crud = 2 /\ req.object.id = req.uid)

C24_Witness ==
    /\ Answered("update") /\ req.body.kind = "invalid"
    /\ req.rows0[req.uid] = NoRow
    /\ req.err = ErrValidation /\ req.crud = 0 /\ rows = req.rows0

\* C25: a successful update of a row of an owned resource leaves the owner of the
\* row as it was, whatever owner the body carries or omits, so every row of an
\* owned resource has an owner at all times.
C25_OwnershipPreserved ==
    /\ (/\ Answered("update") /\ req.outcome = "response" /\ req.status = StatusOK
        /\ req.res \notin GlobalResources)
          => rows[req.uid].owner = req.rows0[req.uid].owner
    /\ \A i \in Ids :
          (rows[i] # NoRow /\ rows[i].res \notin GlobalResources) => rows[i].owner \in Users

\* C26: for a row visible to the caller, get, the lookup of update and the lookup
\* of delete find the row whatever the page and page_size parameters of the
\* request are: get answers with the row, delete and an update with a valid body
\* succeed.
C26_SingleRowIgnoresPagination ==
    (/\ req.pc = "done" /\ req.via = "gate" /\ req.gate = "admitted"
     /\ req.op \in {"get", "update", "delete"} /\ Visible
     /\ (req.op = "update" => req.body.kind = "ok"))
    =>
    /\ req.err # ErrRecordNotFound
    /\ req.op = "get" => (req.status = StatusOK /\ req.object.id = req.uid)

\* a request whose subject had no local record at its first lookup is rejected at
\* the insert of the record because another request inserted it in between
RejectedByOthersInsert(r) ==
    /\ r.pc = "done" /\ r.gate = "rejected" /\ r.rejectedAt = "save"
    /\ r.absent1
    /\ r.err = ErrDuplicateKey

\* C27: of two requests in flight, neither is rejected because of the other's
\* insert of the local user record: a request with a valid credential whose
\* collaborators answer is admitted or rejected on its own permissions.
C27_AdmissionUnderInterleaving ==
    ~RejectedByOthersInsert(req) /\ ~RejectedByOthersInsert(pure)

\* an update or a delete has reported success though its write hit no row
SucceededOnMissingRow(r) ==
    /\ r.pc = "done" /\ r.op \in {"update", "delete"}
    /\ r.outcome = "response" /\ r.status \in {StatusOK, StatusNoContent}
    /\ r.affected = 0

\* C28: of two requests in flight, an update or a delete whose row was deleted by
\* the other after its existence check does not report success, so two deletes of
\* one row never both report success.
C28_ExistenceUnderConcurrency ==
    ~SucceededOnMissingRow(req) /\ ~SucceededOnMissingRow(pure)

\* C29: the offset of the scope is (Page - 1) * PageSize of the page and page
\* size the scope stores and is never negative, whatever the two parameters are,
\* at and beyond the ends of the range of int too; a list whose offset is at or
\* past the count has no rows and no error.
C29_OffsetOfEffectiveValues ==
    pure.evaluated =>
    /\ pure.scopes.Offset = (pure.scopes.Page - 1) * pure.scopes.PageSize
    /\ pure.scopes.Offset >= 0
    /\ (pure.fn = "GetAll" /\ pure.scopes.Offset >= pure.list.Count)
          => pure.list.Data = <<>>

\* the calls of the gate in their order, with and without the insert of the user
GateCallOrders ==
    {<<"RetrospectToken", "GetUserFromToken", "DBLoadUser", "DBSaveUser", "DBLoadUser",
       "GetRolesFromToken">>,
     <<"RetrospectToken", "GetUserFromToken", "DBLoadUser", "DBLoadUser",
       "GetRolesFromToken">>}
IsPrefix(s, t) == Len(s) <= Len(t) /\ SubSeq(t, 1, Len(s)) = s

\* the call made by the step at which a request was rejected
CallOfStep(at) ==
    CASE at = "introspect" -> "RetrospectToken"
      [] at = "identity" -> "GetUserFromToken"
      [] at = "save" -> "DBSaveUser"
      [] at = "load2" -> "DBLoadUser"
      [] at \in {"roles", "authorize"} -> "GetRolesFromToken"
      [] OTHER -> None

\* the request in the gate has made each call once and in order; a rejected request
\* made no call after the one that failed, has its one answer 401 and no handler
\* call; an admitted request made every call and has one handler call
C30_OneTerminalState ==
    /\ req.gate \in {None, "admitted", "rejected"}
    /\ \E order \in GateCallOrders : IsPrefix(req.trace, order)
    /\ req.gate = None => req.pc \notin {"handler", "done"} /\ req.outcome = None
    /\ req.gate = "rejected" =>
          /\ req.pc = "done" /\ req.calls = 0
          /\ req.outcome = "response" /\ req.status = StatusUnauthorized
          /\ req.rejectedAt \in {"parse", "introspect", "identity", "save", "load2",
                                 "roles", "authorize"}
          /\ req.rejectedAt = "parse" => req.trace = <<>>
          /\ req.rejectedAt # "parse" =>
                req.trace # <<>> /\ req.trace[Len(req.trace)] = CallOfStep(req.rejectedAt)
          /\ req.rejectedAt = "authorize" => req.trace \in GateCallOrders
    /\ req.gate = "admitted" =>
          /\ req.pc = "handler" /\ req.calls = 1 /\ req.rejectedAt = None
          /\ req.trace \in GateCallOrders

\* C30: when every call returns, a request that entered the gate ends admitted or
\* rejected, and never both; no call is made twice, the first failure ends the
\* request, and a rejected request has exactly one answer.
C30_GateTerminates ==
    /\ []C30_OneTerminalState
    /\ (req.pc = "parse") ~> (req.gate \in {"admitted", "rejected"})
    /\ [][req.gate # None => req'.gate \in {req.gate, None} /\ req'.pc \in {req.pc, "idle"}]_vars

C30_Witness ==
    /\ req.gate = "rejected" /\ req.rejectedAt = "load2"
    /\ Len(req.trace) = 5 /\ req.outcome = "response"

==========================================================================
